---------------------------- MODULE Spec2Model ----------------------------
(***************************************************************************)
(* A model of the speech-to-text pipeline of miniArray/speech:             *)
(*   - the audio recorder (src/src/stt/audio.ts, createAudioRecorder),     *)
(*   - the retry wrapper (src/src/stt/transcription.ts,                    *)
(*     Transcriber.transcribeWithRetry),                                   *)
(*   - the local provider's temporary file (WhisperProvider.transcribe),   *)
(*   - the stt command line (src/src/stt-index.ts, lines 1-242).           *)
(*                                                                         *)
(* The program runs on one JavaScript event loop: every action below is    *)
(* one callback (or one stretch of an async function between two awaits)   *)
(* run to completion.  Timers (the 1 s drain wait, the 2 s stop timeout,   *)
(* the 500 ms backoff) are modelled by the order of their callbacks: a     *)
(* timer's action firing is the timer's delay having elapsed.              *)
(***************************************************************************)
EXTENDS Integers, Sequences, FiniteSets, TLC

(***************************************************************************)
(* Bounds of the model.                                                    *)
(***************************************************************************)
\* data chunks the capture subprocess writes in one session
MaxChunks == 2
\* end-of-recording lines (Enter) the command line reads in one run
MaxLines == 1
\* largest maxRetries passed to transcribeWithRetry in the retry specification
MaxRetriesArg == 3
\* SIGINT/SIGTERM deliveries in one run of the command line
MaxSignals == 2
\* milliseconds Date.now() advances in the local provider's specification
MaxClock == 1
\* pieces of standard output one whisper-cpp run writes
MaxOutData == 2
\* "data" events of the tts program's standard input
MaxStdin == 2
\* bytes of a PCM buffer handed to pcmToWav
MaxPcm == 3

(***************************************************************************)
(* Program constants.                                                      *)
(***************************************************************************)
\* transcribeWithRetry(audioBuffer, maxRetries = 2)
DefaultMaxRetries == 2
\* setTimeout(resolve, 500) between attempts
BackoffMs == 500

\* The asynchronous activities that call recorder.stop() and
\* transcribeWithRetry(): task 0 is the signal path
\* (handleSignalTranscription), task i >= 1 the "line" handler's run for the
\* i-th line.
LineTasks == 1..MaxLines
Tasks == {0} \cup LineTasks
IsSignalTask(t) == t = 0

\* Chunks the capture subprocess can write (raw PCM bytes).
ChunkPool == {<<1>>, <<2, 3>>}
\* The error a failed transcribe() attempt rejects with: every failure is
\* its own Error object, named here by the invocation that raised it.
ErrorOf(k) == <<"error of attempt", k>>
\* Texts a transcribe() attempt can succeed with, as character codes:
\* empty, one blank, "hi".
Texts == {<<>>, <<32>>, <<104, 105>>}

NoAudioCaptured == "No audio data captured"
StopTimeout == "Recording stop timeout"

VARIABLES
  \* ---- capture subprocess and recorder handle (audio.ts) ----
  proc,             \* "none" | "running" | "unkillable" | "closed": the `rec`
                    \* subprocess ("unkillable": running, and a signal
                    \* cannot be sent to it)
  signalled,        \* signals delivered to the subprocess
  killed,           \* ChildProcess.killed
  chunks,           \* const chunks: Buffer[]
  recordingStarted, \* let recordingStarted
  emitted,          \* history: the chunks the subprocess wrote, in order
  call,             \* per caller: the promise, timer of its stop() call
  \* ---- transcribeWithRetry and its caller (transcription.ts) ----
  task,             \* per task: position and locals of the async function
  \* ---- the stt process (stt-index.ts) ----
  mainPc, opts, exited, exitCode, stdout, stderr,
  isProcessingSignal, activeRecorder, activeTranscriber, spinner,
  sigDelivered,     \* history: SIGINT/SIGTERM deliveries handled so far
  sigTriggers,      \* history: times the signal path began its sequence
  \* ---- the local provider (transcription.ts, WhisperProvider) ----
  wcall,            \* per client: its transcribe() call and whisper-cpp run
  files,            \* the temporary directory: the files in it
  now,              \* Date.now()
  \* ---- the tts process (stt-index.ts:244-355) ----
  tts,              \* its inputs, position and locals ("off": not run)
  \* ---- one call of pcmToWav (transcription.ts:26-56) ----
  wav               \* its arguments and its outcome ("off": no call)

recVars == <<proc, signalled, killed, chunks, recordingStarted, emitted, call>>
taskVars == <<task>>
cliVars == <<mainPc, opts, exited, exitCode, stdout, stderr,
             isProcessingSignal, activeRecorder, activeTranscriber, spinner,
             sigDelivered, sigTriggers>>
wVars == <<wcall, files, now>>
ttsVars == <<tts>>
wavVars == <<wav>>
vars == <<recVars, taskVars, cliVars, wVars, ttsVars, wavVars>>

(***************************************************************************)
(* Buffers.                                                                *)
(***************************************************************************)
\* Buffer.concat(list)
RECURSIVE BufferConcat(_)
BufferConcat(list) ==
  IF list = <<>> THEN <<>> ELSE Head(list) \o BufferConcat(Tail(list))

RECURSIVE SumLen(_)
SumLen(list) ==
  IF list = <<>> THEN 0 ELSE Len(Head(list)) + SumLen(Tail(list))

(***************************************************************************)
(* Strings (sequences of character codes).                                 *)
(***************************************************************************)
\* the white space String.prototype.trim removes: space, \n, \t, \r
IsSpace(ch) == ch \in {32, 10, 9, 13}

RECURSIVE TrimStart(_)
TrimStart(s) ==
  IF s # <<>> /\ IsSpace(Head(s)) THEN TrimStart(Tail(s)) ELSE s

RECURSIVE TrimEnd(_)
TrimEnd(s) ==
  IF s # <<>> /\ IsSpace(s[Len(s)]) THEN TrimEnd(SubSeq(s, 1, Len(s) - 1)) ELSE s

\* String.prototype.trim
Trim(s) == TrimEnd(TrimStart(s))

(***************************************************************************)
(* The stt process: its options, streams and exit (stt-index.ts).          *)
(***************************************************************************)
Options == [provider : {"whisper", "elevenlabs"}, apiKey : BOOLEAN,
            json : BOOLEAN, isTTY : BOOLEAN]

InitCli(pc, os) ==
  /\ mainPc = pc
  /\ opts \in os
  /\ exited = FALSE
  /\ exitCode = -1
  /\ stdout = <<>>
  /\ stderr = <<>>
  /\ isProcessingSignal = FALSE
  /\ activeRecorder = FALSE
  /\ activeTranscriber = FALSE
  /\ spinner = FALSE
  /\ sigDelivered = 0
  /\ sigTriggers = 0

\* const isQuietMode = () => !process.stdin.isTTY
isQuietMode == ~opts.isTTY

\* result.text && result.text.trim()
HasText(text) == text # <<>> /\ Trim(text) # <<>>

\* an exit that records the code and lets the process run on
Exit_returns(code) == exited' = exited /\ exitCode' = code

\* process.exit(code)
Exit(code) == exited' = TRUE /\ exitCode' = code

\* console.error(...) unless quiet
ErrUnlessQuiet(log, msg) == IF isQuietMode THEN log ELSE Append(log, msg)

\* spinner.succeed / spinner.fail (ora writes to process.stderr)
ErrIfSpinner(log, msg) == IF spinner THEN Append(log, msg) ELSE log

\* catch (error) { ...; process.exit(1) } of the line handler (162-171) and
\* of handleSignalTranscription (69-77)
CatchAndExit(t, msg) ==
  /\ stderr' = ErrUnlessQuiet(
                 IF IsSignalTask(t) THEN stderr
                 ELSE ErrIfSpinner(stderr, <<"Transcription failed">>),
                 <<"Error:", msg>>)
  /\ Exit(1)
  /\ UNCHANGED <<mainPc, opts, stdout, isProcessingSignal, activeRecorder,
                 activeTranscriber, spinner, sigDelivered, sigTriggers>>

\* what the line handler writes to stdout (stt-index.ts:146-159)
LineOutput(text) ==
  IF opts.json THEN <<[json |-> TRUE, text |-> text]>>
  ELSE IF HasText(text) THEN <<[json |-> FALSE, text |-> text]>>
  ELSE <<>>

\* what the signal path writes to stdout (stt-index.ts:61-67)
SignalOutput(text) ==
  IF HasText(text)
  THEN IF opts.json THEN <<[json |-> TRUE, text |-> text]>>
       ELSE <<[json |-> FALSE, text |-> text]>>
  ELSE <<>>

\* after transcribeWithRetry returned: print and process.exit(0)
\* (stt-index.ts:144-161 and 61-68)
PrintAndExit(t, text) ==
  /\ IF IsSignalTask(t)
     THEN /\ stdout' = stdout \o SignalOutput(text)
          /\ UNCHANGED stderr
     ELSE /\ stdout' = stdout \o LineOutput(text)
          /\ stderr' = LET s1 == ErrIfSpinner(stderr, <<"Transcription complete">>)
                       IN IF ~opts.json /\ ~HasText(text)
                          THEN ErrUnlessQuiet(s1, <<"No transcription returned">>)
                          ELSE s1
  /\ Exit(0)
  /\ UNCHANGED <<mainPc, opts, isProcessingSignal, activeRecorder,
                 activeTranscriber, spinner, sigDelivered, sigTriggers>>

(***************************************************************************)
(* The retry wrapper: Transcriber.transcribeWithRetry                      *)
(* (transcription.ts:178-199).  A single transcribe() attempt is the       *)
(* environment's: it succeeds with some text or fails with an error.       *)
(* task[t].log is the history of the attempts as transcribe() saw them.    *)
(* task[t].caller tells who awaits the wrapper: a handler of the command   *)
(* line ("cli"), which goes on at once when the wrapper settles, or a      *)
(* client of the wrapper's own specification ("client").                   *)
(***************************************************************************)
NoTask == [pc |-> "idle", caller |-> "none", audio |-> <<>>, maxRetries |-> 0,
           defaulted |-> FALSE,
           attempt |-> 0, lastError |-> <<"null">>, result |-> <<>>,
           thrown |-> [attempts |-> 0, msg |-> <<>>],
           waits |-> 0, waitedMs |-> 0, log |-> <<>>]

InitTasks == task = [t \in Tasks |-> NoTask]

\* `${lastError?.message}`
ErrorMessage(e) == IF e = <<"null">> THEN <<"undefined">> ELSE e

\* throw new Error(`Failed after ${maxRetries} attempts: ${lastError?.message}`)
Exhausted(r) == [attempts |-> r.maxRetries, msg |-> ErrorMessage(r.lastError)]

\* a loop that tests its condition after the first attempt only
LoopCond_afterFirst(r) == r.attempt = 0 \/ r.attempt < r.maxRetries

\* for (...; attempt < maxRetries; ...)
LoopCond(r) == r.attempt < r.maxRetries

\* The head of the for loop: another attempt (transcribe is invoked), or the
\* throw after the loop.
LoopHead(r) ==
  IF LoopCond(r)
  THEN [r EXCEPT !.pc = "attempt",
                 !.log = Append(@, [out |-> "pending", val |-> <<>>,
                                    audio |-> r.audio])]
  ELSE [r EXCEPT !.pc = "threw", !.thrown = Exhausted(r)]

\* transcribeWithRetry(audioBuffer, maxRetries): let lastError = null; attempt = 0
EnterRetry(r, buf, n) ==
  LoopHead([r EXCEPT !.audio = buf, !.maxRetries = n, !.attempt = 0,
                     !.lastError = <<"null">>])

\* transcribeWithRetry(audioBuffer): maxRetries: number = 2
EnterRetryDefault(r, buf) ==
  EnterRetry([r EXCEPT !.defaulted = TRUE], buf, DefaultMaxRetries)

\* a catch that keeps the first error
CatchError_first(r, e) ==
  IF r.lastError = <<"null">> THEN [r EXCEPT !.lastError = e] ELSE r

\* lastError = error as Error
CatchError(r, e) == [r EXCEPT !.lastError = e]

\* a wait after every failed attempt, the last one too
ShouldWait_always(r) == r.attempt < r.maxRetries

\* if (attempt < maxRetries - 1) await new Promise(r => setTimeout(r, 500))
ShouldWait(r) == r.attempt < r.maxRetries - 1

SetOutcome(log, out, val) ==
  [log EXCEPT ![Len(log)] = [@ EXCEPT !.out = out, !.val = val]]

\* a loop that keeps the result and goes on to the next attempt
ReturnResult_continue(r, text) ==
  LoopHead([r EXCEPT !.result = text, !.attempt = @ + 1])

\* return await this.transcribe(audioBuffer)
ReturnResult(r, text) == [r EXCEPT !.pc = "returned", !.result = text]

\* The wrapper has made a step and task t is now r.  When it has settled and
\* a handler of the command line awaits it, the handler goes on in the same
\* turn of the event loop: it prints and exits 0, or catches and exits 1.
Continue(t, r) ==
  IF r.caller = "cli" /\ r.pc = "returned"
  THEN /\ task' = [task EXCEPT ![t] = [r EXCEPT !.pc = "done"]]
       /\ PrintAndExit(t, r.result)
  ELSE IF r.caller = "cli" /\ r.pc = "threw"
  THEN /\ task' = [task EXCEPT ![t] = [r EXCEPT !.pc = "failed"]]
       /\ CatchAndExit(t, r.thrown)
  ELSE /\ task' = [task EXCEPT ![t] = r]
       /\ UNCHANGED cliVars

\* the attempt succeeded
TranscribeOk(t, text) ==
  /\ ~exited
  /\ UNCHANGED <<wVars, ttsVars, wavVars>>
  /\ task[t].pc = "attempt"
  /\ Continue(t, ReturnResult([task[t] EXCEPT !.log = SetOutcome(@, "ok", text)],
                              text))
  /\ UNCHANGED recVars

\* catch (error) { ... }  -- the attempt failed
TranscribeFail(t) ==
  /\ ~exited
  /\ UNCHANGED <<wVars, ttsVars, wavVars>>
  /\ task[t].pc = "attempt"
  /\ LET e == ErrorOf(Len(task[t].log))
         r == CatchError([task[t] EXCEPT !.log = SetOutcome(@, "failed", e)], e)
     IN Continue(t, IF ShouldWait(r)
                    THEN [r EXCEPT !.pc = "backoff"]
                    ELSE LoopHead([r EXCEPT !.attempt = @ + 1]))
  /\ UNCHANGED recVars

\* the 500 ms timer fires; attempt++ and the loop goes round
BackoffDone(t) ==
  /\ ~exited
  /\ UNCHANGED <<wVars, ttsVars, wavVars>>
  /\ task[t].pc = "backoff"
  /\ Continue(t, LoopHead([task[t] EXCEPT !.waits = @ + 1,
                                           !.waitedMs = @ + BackoffMs,
                                           !.attempt = @ + 1]))
  /\ UNCHANGED recVars

\* A client calling transcribeWithRetry(pcm, n) (the wrapper's own
\* specification).
CallWithRetry(t, buf, n) ==
  /\ ~exited
  /\ UNCHANGED <<wVars, ttsVars, wavVars>>
  /\ task[t].pc = "idle"
  /\ task' = [task EXCEPT ![t] = EnterRetry([@ EXCEPT !.caller = "client"], buf, n)]
  /\ UNCHANGED <<recVars, cliVars>>

\* A client calling transcribeWithRetry(pcm), maxRetries left out.
CallWithDefault(t, buf) ==
  /\ ~exited
  /\ UNCHANGED <<wVars, ttsVars, wavVars>>
  /\ task[t].pc = "idle"
  /\ task' = [task EXCEPT ![t] = EnterRetryDefault([@ EXCEPT !.caller = "client"], buf)]
  /\ UNCHANGED <<recVars, cliVars>>

(***************************************************************************)
(* The recorder: createAudioRecorder (audio.ts:15-97).                     *)
(* The subprocess is assumed to have been spawned (spawn's own failure,    *)
(* an 'error' event with no listener, ends the Node process before any     *)
(* stop()).  "closed" stands for: exited, stdio drained, 'close' emitted.  *)
(* A subprocess the system does not let this process signal is            *)
(* "unkillable": every kill() on it is refused and emits 'error'.          *)
(***************************************************************************)
\* One stop() call: its promise (state, value, err), its 2 s timer, and
\* facts about it: `seq`, its place among the stop() calls; `sent`,
\* whether its kill("SIGTERM") reached the subprocess; `overdue`, whether
\* the subprocess was still running when its timer fired; `at`, how many
\* chunks had arrived when it was made (noted by the clients of the
\* recorder's own specification).
NoCall == [state |-> "none", value |-> <<>>, err |-> "", timer |-> "none",
           seq |-> 0, sent |-> FALSE, overdue |-> FALSE, at |-> 0]

InitRecorder(p) ==
  /\ proc = p
  /\ signalled = {}
  /\ killed = FALSE
  /\ chunks = <<>>
  /\ recordingStarted = FALSE
  /\ emitted = <<>>
  /\ call = [t \in Tasks |-> NoCall]

\* a data handler that puts the chunk in front
PushChunk_front(c) == <<c>> \o chunks

\* a data handler that drops what arrives once stop() has sent its signal
PushChunk_untilStop(c) == IF killed THEN chunks ELSE Append(chunks, c)

\* process.stdout.on("data", chunk => { chunks.push(chunk); recordingStarted = true })
PushChunk(c) == Append(chunks, c)

\* what spawn() can have started
Spawned == {"running", "unkillable"}

\* the subprocess has not exited
Alive == proc \in Spawned

OnData(c) ==
  /\ ~exited
  /\ UNCHANGED <<wVars, ttsVars, wavVars>>
  /\ Alive
  /\ Len(emitted) < MaxChunks
  /\ emitted' = Append(emitted, c)
  /\ chunks' = PushChunk(c)
  /\ recordingStarted' = TRUE
  /\ UNCHANGED <<proc, signalled, killed, call, taskVars, cliVars>>

\* ChildProcess.kill(signal): the signal is sent, and `killed` set, only
\* while the child has not exited.
KillDelivered == proc = "running"

\* ChildProcess.kill(signal) when the system refuses the signal (EPERM):
\* `killed` stays false and the child emits 'error'.
KillRefused == proc = "unkillable"

\* what that 'error' event carries
ProcError == "kill EPERM"

\* A promise settles once: resolve/reject on a settled promise do nothing.
Resolve(c, v) == IF c.state = "pending"
                 THEN [c EXCEPT !.state = "resolved", !.value = v] ELSE c
Reject(c, e) == IF c.state = "pending"
                THEN [c EXCEPT !.state = "rejected", !.err = e] ELSE c

StopCalls == {t \in Tasks : call[t].state # "none"}

\* stop(): kill("SIGTERM"), on("close", ...), on("error", reject),
\* setTimeout(..., 2000); `seen` is what the caller notes of the chunks
\* delivered so far.  A refused kill emits 'error' inside kill(), before
\* any stop() call has registered its error listener (every earlier call met
\* the same refusal): the emit throws out of the promise's executor, which
\* rejects the call before anything is registered.
RecorderStopAt(t, seen) ==
  /\ proc # "none"
  /\ LET made == [NoCall EXCEPT !.seq = Cardinality(StopCalls) + 1,
                                !.at = seen]
     IN IF KillRefused
        THEN /\ call' = [call EXCEPT ![t] = [made EXCEPT !.state = "rejected",
                                                         !.err = ProcError]]
             /\ UNCHANGED <<killed, signalled>>
        ELSE /\ killed' = (killed \/ KillDelivered)
             /\ signalled' = IF KillDelivered THEN signalled \cup {"SIGTERM"}
                             ELSE signalled
             /\ call' = [call EXCEPT ![t] = [made EXCEPT !.state = "pending",
                                                         !.timer = "armed",
                                                         !.sent = KillDelivered]]
  /\ UNCHANGED <<proc, chunks, recordingStarted, emitted>>

\* stop() as the command line calls it (it notes nothing)
RecorderStop(t) == RecorderStopAt(t, 0)

\* a close handler without the no-data check
CloseHandler_unchecked(c) == Resolve(c, BufferConcat(chunks))

\* process.on("close", code => ...) of one stop() call
CloseHandler(c) ==
  IF ~recordingStarted \/ Len(chunks) = 0
  THEN Reject(c, NoAudioCaptured)
  ELSE Resolve(c, BufferConcat(chunks))

\* the handler of the command line that awaits stop() call t, if any
Awaited(t) == task[t].pc = "stopping" /\ call[t].state = "pending"

\* a handler that transcribes an empty buffer, not the one stop() returned
AfterStop_empty(r, buf) == EnterRetryDefault(r, <<>>)

\* const result = await transcriber.transcribeWithRetry(audioBuffer)
AfterStop(r, buf) == EnterRetryDefault(r, buf)

\* The subprocess exits (on a signal, or by itself) and 'close' is emitted:
\* every close listener registered so far runs, in the order of
\* registration.  Then the handlers awaiting the stop() calls go on, in the
\* same order: with the buffer into transcribeWithRetry, or with the error
\* into the catch block, whose process.exit(1) ends the turn.
OnClose ==
  /\ ~exited
  /\ UNCHANGED <<wVars, ttsVars, wavVars>>
  /\ Alive
  /\ proc' = "closed"
  /\ LET settled == [t \in Tasks |->
                       IF call[t].state = "none" THEN call[t]
                       ELSE CloseHandler(call[t])]
         woken == {t \in Tasks : Awaited(t)}
         failing == {t \in woken : settled[t].state = "rejected"}
     IN /\ call' = settled
        /\ IF failing = {}
           THEN /\ task' = [t \in Tasks |->
                             IF t \in woken
                             THEN AfterStop(task[t], settled[t].value)
                             ELSE task[t]]
                /\ UNCHANGED cliVars
           ELSE LET first == CHOOSE t \in failing :
                               \A u \in failing : call[t].seq <= call[u].seq
                IN /\ task' = [t \in Tasks |->
                                IF t = first THEN [task[t] EXCEPT !.pc = "failed"]
                                ELSE IF t \in woken \ failing
                                        /\ call[t].seq < call[first].seq
                                THEN AfterStop(task[t], settled[t].value)
                                ELSE task[t]]
                   /\ CatchAndExit(first, settled[first].err)
  /\ UNCHANGED <<signalled, killed, chunks, recordingStarted, emitted>>

\* the guard of the timeout callback: process && !process.killed
TimeoutGuard == ~killed

\* setTimeout(() => { if (process && !process.killed) { kill("SIGKILL"); reject(...) } }, 2000)
\* and, when that rejects, the awaiting handler's catch block.  (A timer is
\* armed only by a stop() call whose kill was not refused.)
OnStopTimeout(t) ==
  /\ ~exited
  /\ UNCHANGED <<wVars, ttsVars, wavVars>>
  /\ call[t].timer = "armed"
  /\ LET fired == [call[t] EXCEPT !.timer = "fired", !.overdue = Alive]
     IN IF TimeoutGuard
        THEN /\ killed' = (killed \/ KillDelivered)
             /\ signalled' = IF KillDelivered THEN signalled \cup {"SIGKILL"}
                             ELSE signalled
             /\ call' = [call EXCEPT ![t] = Reject(fired, StopTimeout)]
             /\ IF Awaited(t)
                THEN /\ task' = [task EXCEPT ![t] = [@ EXCEPT !.pc = "failed"]]
                     /\ CatchAndExit(t, StopTimeout)
                ELSE UNCHANGED <<taskVars, cliVars>>
        ELSE /\ call' = [call EXCEPT ![t] = fired]
             /\ UNCHANGED <<killed, signalled, taskVars, cliVars>>
  /\ UNCHANGED <<proc, chunks, recordingStarted, emitted>>

\* A client calling stop() on the handle (the recorder's own specification).
CallStop(t) ==
  /\ ~exited
  /\ UNCHANGED <<wVars, ttsVars, wavVars>>
  /\ call[t].state = "none"
  /\ RecorderStopAt(t, Len(emitted))
  /\ UNCHANGED <<taskVars, cliVars>>

(***************************************************************************)
(* The stt command line: main, recordManual and the two handlers           *)
(* (stt-index.ts:39-242).                                                  *)
(***************************************************************************)
\* a start-up without the credential check
MissingCredential_never == FALSE

\* if (provider === "elevenlabs" && !apiKey)
MissingCredential == opts.provider = "elevenlabs" /\ ~opts.apiKey

\* main(): the .action callback, through recordManual() to the point where
\* the handlers are installed (stt-index.ts:199-237, 90-129).
Main ==
  /\ ~exited
  /\ UNCHANGED <<wVars, ttsVars, wavVars>>
  /\ mainPc = "start"
  /\ IF MissingCredential
     THEN /\ stderr' = stderr \o <<<<"Error: ELEVENLABS_API_KEY required">>,
                                   <<"Tip: Use --provider whisper">>>>
          /\ Exit(1)
          /\ mainPc' = "exit"
          /\ UNCHANGED <<recVars, activeRecorder, activeTranscriber, spinner>>
     ELSE /\ activeTranscriber' = TRUE
          /\ stderr' = ErrUnlessQuiet(stderr, <<"Press Enter or Ctrl+C">>)
          /\ spinner' = ~isQuietMode
          /\ proc' \in Spawned
          /\ activeRecorder' = TRUE
          /\ mainPc' = "recording"
          /\ UNCHANGED <<signalled, killed, chunks, recordingStarted, emitted,
                         call, exited, exitCode>>
  /\ UNCHANGED <<taskVars, opts, stdout, isProcessingSignal, sigDelivered,
                 sigTriggers>>

\* rl.on("line", async () => { spinner.text = ...; await 1 s ... })
OnLine(t) ==
  /\ ~exited
  /\ UNCHANGED <<wVars, ttsVars, wavVars>>
  /\ mainPc = "recording"
  /\ t \in LineTasks
  /\ task[t].pc = "idle"
  /\ \A u \in LineTasks : u < t => task[u].pc # "idle"
  /\ task' = [task EXCEPT ![t] = [@ EXCEPT !.pc = "drain", !.caller = "cli"]]
  /\ UNCHANGED <<recVars, cliVars>>

\* the guard of handleSignalTranscription
SignalGuard == isProcessingSignal \/ ~activeRecorder \/ ~activeTranscriber

\* process.on("SIGINT" | "SIGTERM", () => handleSignalTranscription()),
\* up to the first await (stt-index.ts:39-56)
OnSignal ==
  /\ ~exited
  /\ UNCHANGED <<wVars, ttsVars, wavVars>>
  /\ mainPc = "recording"
  /\ sigDelivered < MaxSignals
  /\ sigDelivered' = sigDelivered + 1
  /\ IF SignalGuard
     THEN /\ Exit(0)
          /\ UNCHANGED <<task, isProcessingSignal, stderr, sigTriggers>>
     ELSE /\ isProcessingSignal' = TRUE
          /\ sigTriggers' = sigTriggers + 1
          /\ stderr' = ErrUnlessQuiet(stderr, <<"Stopping recording...">>)
          /\ task' = [task EXCEPT ![0] = [@ EXCEPT !.pc = "drain",
                                                   !.caller = "cli"]]
          /\ UNCHANGED <<exited, exitCode>>
  /\ UNCHANGED <<recVars, mainPc, opts, stdout, activeRecorder,
                 activeTranscriber, spinner>>

\* the 1 s drain wait is over: const audioBuffer = await recorder.stop()
\* When stop() throws (a refused kill) the handler goes to its catch block.
DrainDone(t) ==
  /\ ~exited
  /\ UNCHANGED <<wVars, ttsVars, wavVars>>
  /\ task[t].pc = "drain"
  /\ RecorderStop(t)
  /\ IF call'[t].state = "rejected"
     THEN /\ task' = [task EXCEPT ![t] = [@ EXCEPT !.pc = "failed"]]
          /\ CatchAndExit(t, call'[t].err)
     ELSE /\ task' = [task EXCEPT ![t] = [@ EXCEPT !.pc = "stopping"]]
          /\ UNCHANGED cliVars

(***************************************************************************)
(* The local provider: WhisperProvider.transcribe and runWhisper           *)
(* (transcription.ts:70-126).  Strings are sequences of character codes    *)
(* (10 newline, 32 space, 91 "[").  A file of the temporary directory is   *)
(* [name, owner]: its name (the Date.now() in it) and the call whose WAV   *)
(* bytes it holds.                                                         *)
(***************************************************************************)
WClients == {1, 2}

\* what one "data" event of whisper-cpp's stdout can carry:
\* "[a\n", " b\n", "c"
OutPieces == {<<91, 97, 10>>, <<32, 98, 10>>, <<99>>}
\* what whisper-cpp writes to stderr when it fails: "model not found"
ErrPieces == {<<"model not found">>}

\* code: the exit code 'close' reported (-1: none yet); launchFailed: the
\* 'error' event was emitted
NoWCall == [pc |-> "idle", file |-> -1, input |-> "none", stdout |-> <<>>,
            stderr |-> <<>>, nOut |-> 0, text |-> <<>>, err |-> <<>>,
            code |-> -1, launchFailed |-> FALSE]

InitWhisper ==
  /\ wcall = [c \in WClients |-> NoWCall]
  /\ files = {}
  /\ now = 0

\* writeFileSync(path, data): creates or overwrites
WriteFile(name, c) ==
  {f \in files : f.name # name} \cup {[name |-> name, owner |-> c]}

\* unlinkSync(path) inside try { } catch (e) { /* ignore */ }
Unlink(name) == {f \in files : f.name # name}

FileNamed(name) == {f \in files : f.name = name}

\* a filter that drops no bracketed line
StartsWithBracket_never(line) == FALSE

\* line.startsWith("[")
StartsWithBracket(line) == line # <<>> /\ Head(line) = 91

\* stdout.split("\n")
RECURSIVE SplitLines(_)
SplitLines(s) ==
  IF \E i \in 1..Len(s) : s[i] = 10
  THEN LET i == CHOOSE j \in 1..Len(s) :
                  s[j] = 10 /\ \A k \in 1..(j - 1) : s[k] # 10
       IN <<SubSeq(s, 1, i - 1)>> \o SplitLines(SubSeq(s, i + 1, Len(s)))
  ELSE <<s>>

\* .filter(line => !line.startsWith("[") && line.trim().length > 0).map(line => line.trim())
RECURSIVE TextLines(_)
TextLines(lines) ==
  IF lines = <<>> THEN <<>>
  ELSE IF ~StartsWithBracket(Head(lines)) /\ Len(Trim(Head(lines))) > 0
       THEN <<Trim(Head(lines))>> \o TextLines(Tail(lines))
       ELSE TextLines(Tail(lines))

\* textLines.join(" ")
RECURSIVE JoinSpace(_)
JoinSpace(lines) ==
  IF lines = <<>> THEN <<>>
  ELSE IF Len(lines) = 1 THEN Head(lines)
  ELSE Head(lines) \o <<32>> \o JoinSpace(Tail(lines))

\* the text runWhisper resolves with
ParseWhisper(out) == Trim(JoinSpace(TextLines(SplitLines(out))))

\* Date.now() advances
Tick ==
  /\ now < MaxClock
  /\ now' = now + 1
  /\ UNCHANGED <<wcall, files, recVars, taskVars, cliVars, ttsVars, wavVars>>

\* transcribe(audioBuffer) up to its await: the file is written, then (inside
\* the try) whisper-cpp is spawned.  writeFileSync can throw before it has
\* created the file, or after (a failed write on the opened file); it is
\* called before the try block.
WTranscribe(c, w) ==
  /\ wcall[c].pc = "idle"
  /\ LET name == now IN
     \/ /\ w = "written"
        /\ files' = WriteFile(name, c)
        /\ wcall' = [wcall EXCEPT ![c] = [@ EXCEPT !.pc = "spawned",
                                                   !.file = name]]
     \/ /\ w = "throws, no file"
        /\ files' = files
        /\ wcall' = [wcall EXCEPT ![c] = [@ EXCEPT !.pc = "rejected",
                                                   !.file = name,
                                                   !.err = <<"write failed">>]]
     \/ /\ w = "throws, file left"
        /\ files' = WriteFile(name, c)
        /\ wcall' = [wcall EXCEPT ![c] = [@ EXCEPT !.pc = "rejected",
                                                   !.file = name,
                                                   !.err = <<"write failed">>]]
  /\ UNCHANGED <<now, recVars, taskVars, cliVars, ttsVars, wavVars>>

\* whisper-cpp opens its input file (-f audioFile)
WOpenInput(c) ==
  /\ wcall[c].pc = "spawned"
  /\ wcall' = [wcall EXCEPT ![c] =
       [@ EXCEPT !.pc = "running",
                 !.input = IF FileNamed(wcall[c].file) = {} THEN "missing"
                           ELSE IF \E f \in FileNamed(wcall[c].file) : f.owner = c
                                THEN "own" ELSE "other"]]
  /\ UNCHANGED <<files, now, recVars, taskVars, cliVars, ttsVars, wavVars>>

\* process.stdout.on("data", data => { stdout += data.toString() })
WStdout(c, piece) ==
  /\ wcall[c].pc = "running"
  /\ wcall[c].input # "missing"
  /\ wcall[c].nOut < MaxOutData
  /\ wcall' = [wcall EXCEPT ![c] = [@ EXCEPT !.stdout = @ \o piece,
                                             !.nOut = @ + 1]]
  /\ UNCHANGED <<files, now, recVars, taskVars, cliVars, ttsVars, wavVars>>

\* process.stderr.on("data", data => { stderr += data.toString() })
WStderr(c, piece) ==
  /\ wcall[c].pc = "running"
  /\ wcall[c].stderr = <<>>
  /\ wcall' = [wcall EXCEPT ![c] = [@ EXCEPT !.stderr = @ \o piece]]
  /\ UNCHANGED <<files, now, recVars, taskVars, cliVars, ttsVars, wavVars>>

\* a close handler that does not look at the exit code
CloseOutcome_anyCode(w, code) ==
  [w EXCEPT !.pc = "resolved", !.text = ParseWhisper(w.stdout), !.code = code]

\* the body of process.on("close", code => ...)
CloseOutcome(w, code) ==
  IF code # 0
  THEN [w EXCEPT !.pc = "rejected",
                 !.err = <<"Whisper failed with code", code>> \o w.stderr,
                 !.code = code]
  ELSE [w EXCEPT !.pc = "resolved", !.text = ParseWhisper(w.stdout),
                 !.code = code]

\* process.on("close", code => ...), then transcribe's finally block.
\* whisper-cpp cannot succeed on an input file it did not find.
WClose(c, code) ==
  /\ wcall[c].pc = "running"
  /\ wcall[c].input = "missing" => code # 0
  /\ wcall' = [wcall EXCEPT ![c] = CloseOutcome(wcall[c], code)]
  /\ files' = Unlink(wcall[c].file)
  /\ UNCHANGED <<now, recVars, taskVars, cliVars, ttsVars, wavVars>>

\* process.on("error", error => ...): whisper-cpp could not be launched;
\* then transcribe's finally block
WLaunchError(c) ==
  /\ wcall[c].pc = "spawned"
  /\ wcall' = [wcall EXCEPT ![c] =
       [@ EXCEPT !.pc = "rejected", !.err = <<"Failed to run whisper">>,
                 !.launchFailed = TRUE]]
  /\ files' = Unlink(wcall[c].file)
  /\ UNCHANGED <<now, recVars, taskVars, cliVars, ttsVars, wavVars>>

(***************************************************************************)
(* The tts command line (stt-index.ts:244-355): text from the argument or  *)
(* from standard input, one call of the remote endpoint, the audio to a    *)
(* file or to standard output.  It is a process of its own: in a run of    *)
(* the tts program the stt variables stay as they are, and conversely.     *)
(***************************************************************************)
\* the text argument, or what one "data" event of stdin carries:
\* "", " ", "hi"
TtsTexts == {<<>>, <<32>>, <<104, 105>>}

NoTts == [pc |-> "off", textArg |-> <<>>, isTTY |-> FALSE, apiKey |-> FALSE,
          output |-> FALSE, data |-> <<>>, nIn |-> 0, text |-> <<>>,
          calls |-> 0, chunks |-> <<>>, audio |-> <<>>]

\* the tts program about to run main(), for every argument and environment
TtsStarts ==
  {[NoTts EXCEPT !.pc = "start", !.textArg = a, !.isTTY = y, !.apiKey = k,
                 !.output = o] :
     a \in TtsTexts, y \in BOOLEAN, k \in BOOLEAN, o \in BOOLEAN}

InitTts(starts) == tts \in starts

\* what a run of tts leaves alone
TtsFrame ==
  UNCHANGED <<recVars, taskVars, wVars, wavVars, mainPc, opts,
              isProcessingSignal, activeRecorder, activeTranscriber, spinner,
              sigDelivered, sigTriggers>>

\* console.error(msg); process.exit(1)   (324-325, 329-330)
TtsReject(r, msg) ==
  /\ tts' = [r EXCEPT !.pc = "failed"]
  /\ stderr' = Append(stderr, <<msg>>)
  /\ Exit(1)
  /\ UNCHANGED stdout

\* catch (error) { console.error("Error:", ...); process.exit(1) }
TtsCatch(r, msg) ==
  /\ tts' = [r EXCEPT !.pc = "failed"]
  /\ stderr' = Append(stderr, <<"Error:", msg>>)
  /\ Exit(1)
  /\ UNCHANGED stdout

\* a catch block that calls the endpoint once more
TtsRemoteFailed_retry(r) ==
  /\ tts' = [r EXCEPT !.pc = "converting", !.calls = @ + 1, !.chunks = <<>>]
  /\ UNCHANGED <<stdout, stderr, exited, exitCode>>

\* the remote call, or the stream it returned, fails: generateSpeech throws
\* and the action's catch block runs
TtsRemoteFailed(r) == TtsCatch(r, "request failed")

\* main from `if (!text)` on, and generateSpeech up to its await (328-334,
\* 276-292)
TtsGenerate(r) ==
  IF r.text = <<>>
  THEN TtsReject(r, "Error: Empty text provided")
  ELSE IF ~r.apiKey
  THEN TtsCatch(r, "ELEVENLABS_API_KEY environment variable is not set")
  ELSE /\ tts' = [r EXCEPT !.pc = "converting", !.calls = @ + 1]
       /\ UNCHANGED <<stdout, stderr, exited, exitCode>>

\* the .action callback up to its first await (315-334)
TtsMain ==
  /\ ~exited
  /\ tts.pc = "start"
  /\ IF tts.textArg # <<>>
     THEN TtsGenerate([tts EXCEPT !.text = tts.textArg])
     ELSE IF ~tts.isTTY
     THEN /\ tts' = [tts EXCEPT !.pc = "reading"]
          /\ UNCHANGED <<stdout, stderr, exited, exitCode>>
     ELSE TtsReject(tts, "Error: No text provided")
  /\ TtsFrame

\* process.stdin.on("data", chunk => { data += chunk })
TtsStdinData(piece) ==
  /\ ~exited
  /\ tts.pc = "reading"
  /\ tts.nIn < MaxStdin
  /\ tts' = [tts EXCEPT !.data = @ \o piece, !.nIn = @ + 1]
  /\ UNCHANGED <<stdout, stderr, exited, exitCode>>
  /\ TtsFrame

\* process.stdin.on("end", () => resolve(data.trim())), and main goes on
TtsStdinEnd ==
  /\ ~exited
  /\ tts.pc = "reading"
  /\ TtsGenerate([tts EXCEPT !.text = Trim(tts.data)])
  /\ TtsFrame

\* process.stdin.on("error", reject), and main's catch block
TtsStdinError ==
  /\ ~exited
  /\ tts.pc = "reading"
  /\ TtsCatch(tts, "stdin error")
  /\ TtsFrame

\* client.textToSpeech.convert(...) resolves with the audio stream
TtsConvertOk ==
  /\ ~exited
  /\ tts.pc = "converting"
  /\ tts' = [tts EXCEPT !.pc = "streaming"]
  /\ UNCHANGED <<stdout, stderr, exited, exitCode>>
  /\ TtsFrame

\* convert(...) rejects, or the stream fails while it is read
TtsConvertFail ==
  /\ ~exited
  /\ tts.pc \in {"converting", "streaming"}
  /\ TtsRemoteFailed(tts)
  /\ TtsFrame

\* for await (const chunk of audioStream) chunks.push(Buffer.from(chunk))
TtsAudioChunk(c) ==
  /\ ~exited
  /\ tts.pc = "streaming"
  /\ Len(tts.chunks) < MaxChunks
  /\ tts' = [tts EXCEPT !.chunks = Append(@, c)]
  /\ UNCHANGED <<stdout, stderr, exited, exitCode>>
  /\ TtsFrame

\* an output step that writes the audio to stdout whatever the options
TtsEmit_always(out, audio, toFile) == Append(out, audio)

\* if (options.output) { ...file... } else { process.stdout.write(audioBuffer) }
TtsEmit(out, audio, toFile) == IF toFile THEN out ELSE Append(out, audio)

\* The stream ends: return Buffer.concat(chunks), then the output (336-344).
\* fs.writeFileSync can throw, which main's catch block catches.  With
\* nothing left to do the process then exits with code 0.
TtsStreamEnd(w) ==
  /\ ~exited
  /\ tts.pc = "streaming"
  /\ ~tts.output => w = "written"
  /\ LET audio == BufferConcat(tts.chunks) IN
     /\ stdout' = TtsEmit(stdout, audio, tts.output)
     /\ IF tts.output /\ w # "written"
        THEN /\ tts' = [tts EXCEPT !.pc = "failed", !.audio = audio]
             /\ stderr' = Append(stderr, <<"Error:", "write failed">>)
             /\ Exit(1)
        ELSE /\ tts' = [tts EXCEPT !.pc = "done", !.audio = audio]
             /\ stderr' = IF tts.output
                          THEN Append(stderr, <<"Audio saved to:">>)
                          ELSE stderr
             /\ Exit(0)
  /\ TtsFrame

(***************************************************************************)
(* The WAV framer: pcmToWav (transcription.ts:26-56).  Buffers are         *)
(* sequences of bytes.  A sample rate is given by the four bytes of its    *)
(* unsigned 32-bit value, least significant first, and byteRate is         *)
(* computed on bytes, so that values up to and beyond 2^32 are exact.      *)
(***************************************************************************)
\* 'RIFF', 'WAVE', 'fmt ', 'data'
RIFF == <<82, 73, 70, 70>>
WAVE == <<87, 65, 86, 69>>
FMT == <<102, 109, 116, 32>>
DATA == <<100, 97, 116, 97>>

Pow256(i) == IF i = 0 THEN 1 ELSE IF i = 1 THEN 256
             ELSE IF i = 2 THEN 65536 ELSE 16777216

\* the bytes writeUInt32LE / writeUInt16LE store for an in-range value
U32LE(n) == [i \in 1..4 |-> (n \div Pow256(i - 1)) % 256]
U16LE(n) == [i \in 1..2 |-> (n \div Pow256(i - 1)) % 256]

\* bs * k on little-endian bytes, with as many bytes as the product needs
RECURSIVE MulBytes(_, _, _)
MulBytes(bs, k, carry) ==
  IF bs = <<>>
  THEN IF carry = 0 THEN <<>>
       ELSE <<carry % 256>> \o MulBytes(<<>>, k, carry \div 256)
  ELSE LET v == Head(bs) * k + carry
       IN <<v % 256>> \o MulBytes(Tail(bs), k, v \div 256)

\* the value is an unsigned 32-bit integer
FitsUInt32(bs) == \A i \in 5..Len(bs) : bs[i] = 0
\* the value is an unsigned 16-bit integer
FitsUInt16(n) == n >= 0 /\ n <= 65535

\* const blockAlign = channels * (bitsPerSample / 8)
BlockAlign(channels) == channels * (16 \div 8)

\* const byteRate = sampleRate * blockAlign
ByteRate(sampleRate, channels) == MulBytes(sampleRate, BlockAlign(channels), 0)

\* a framer that writes the size of the whole file into the data-size field
DataSize_whole(pcm) == 44 + Len(pcm)

\* const dataSize = pcmBuffer.length
DataSize(pcm) == Len(pcm)

\* a framer that counts the 8 bytes of the RIFF chunk header
FileSize_all(pcm) == 44 + DataSize(pcm)

\* const fileSize = headerSize + dataSize - 8
FileSize(pcm) == 44 + DataSize(pcm) - 8

\* a write whose value is outside the field it is written into:
\* writeUInt32LE(byteRate, 28), writeUInt16LE(blockAlign, 32)
OutOfRange(sampleRate, channels) ==
  \/ ~FitsUInt32(ByteRate(sampleRate, channels))
  \/ ~FitsUInt16(BlockAlign(channels))

\* The 44 header bytes, then the PCM bytes.  A write of an out-of-range
\* value throws a RangeError (Node), or, where the runtime does not check
\* the range, stores the low bytes: onRange says which.
PcmToWav(pcm, sampleRate, channels, onRange) ==
  IF OutOfRange(sampleRate, channels) /\ onRange = "throws"
  THEN [threw |-> TRUE, bytes |-> <<>>]
  ELSE [threw |-> FALSE,
        bytes |-> RIFF \o U32LE(FileSize(pcm)) \o WAVE
                  \o FMT \o U32LE(16) \o U16LE(1) \o U16LE(channels)
                  \o sampleRate
                  \o SubSeq(ByteRate(sampleRate, channels), 1, 4)
                  \o U16LE(BlockAlign(channels) % 65536) \o U16LE(16)
                  \o DATA \o U32LE(DataSize(pcm))
                  \o pcm]

\* sample rates: 16000, 44100, 2^31, 2^32 - 1
SampleRates == {<<128, 62, 0, 0>>, <<68, 172, 0, 0>>, <<0, 0, 0, 128>>,
                <<255, 255, 255, 255>>}

\* channel counts (positive, within uint16)
ChannelCounts == {1, 2, 32767, 32768, 65535}

\* PCM buffers: every sequence of at most MaxPcm bytes out of 0 and 255
PcmBuffers == UNION {[1..n -> {0, 255}] : n \in 0..MaxPcm}

NoWav == [pc |-> "off", pcm |-> <<>>, sampleRate |-> <<0, 0, 0, 0>>,
          channels |-> 0, threw |-> FALSE, bytes |-> <<>>]

WavCalls ==
  {[NoWav EXCEPT !.pc = "called", !.pcm = p, !.sampleRate = r, !.channels = c] :
     p \in PcmBuffers, r \in SampleRates, c \in ChannelCounts}

InitWav(calls) == wav \in calls

\* pcmToWav(pcmBuffer, sampleRate, channels) runs
WavFrame(onRange) ==
  /\ wav.pc = "called"
  /\ LET r == PcmToWav(wav.pcm, wav.sampleRate, wav.channels, onRange)
     IN wav' = [wav EXCEPT !.pc = IF r.threw THEN "threw" ELSE "returned",
                           !.threw = r.threw, !.bytes = r.bytes]
  /\ UNCHANGED <<recVars, taskVars, cliVars, wVars, ttsVars>>

(***************************************************************************)
(* Specifications.                                                         *)
(***************************************************************************)
\* The stt command line, from the start of main().
Init ==
  InitRecorder("none") /\ InitTasks /\ InitCli("start", Options) /\ InitWhisper
  /\ InitTts({NoTts}) /\ InitWav({NoWav})

\* The command line never looks into the audio: one kind of chunk is enough.
CliChunks == {<<1, 2>>}

Next ==
  \/ Main
  \/ \E t \in LineTasks : OnLine(t)
  \/ OnSignal
  \/ \E c \in CliChunks : OnData(c)
  \/ OnClose
  \/ \E t \in Tasks : DrainDone(t)
  \/ \E t \in Tasks : OnStopTimeout(t)
  \/ \E t \in Tasks, text \in Texts : TranscribeOk(t, text)
  \/ \E t \in Tasks : TranscribeFail(t)
  \/ \E t \in Tasks : BackoffDone(t)

Spec == Init /\ [][Next]_vars

\* The recorder handle alone, from its construction, with clients calling
\* stop().
NoOptions == {[provider |-> "whisper", apiKey |-> FALSE, json |-> FALSE,
               isTTY |-> FALSE]}

InitRec ==
  (\E p \in Spawned : InitRecorder(p)) /\ InitTasks /\ InitCli("none", NoOptions)
  /\ InitWhisper
  /\ InitTts({NoTts}) /\ InitWav({NoWav})

NextRec ==
  \/ \E c \in ChunkPool : OnData(c)
  \/ OnClose
  \/ \E t \in Tasks : CallStop(t)
  \/ \E t \in Tasks : OnStopTimeout(t)

SpecRecorder == InitRec /\ [][NextRec]_vars

\* The retry wrapper alone, with clients calling transcribeWithRetry.
RetryClients == {0, 1}

InitRetry ==
  InitRecorder("none") /\ InitTasks /\ InitCli("none", NoOptions) /\ InitWhisper
  /\ InitTts({NoTts}) /\ InitWav({NoWav})

NextRetry ==
  \/ \E t \in RetryClients, buf \in ChunkPool, n \in -1..MaxRetriesArg :
       CallWithRetry(t, buf, n)
  \/ \E t \in RetryClients, buf \in ChunkPool : CallWithDefault(t, buf)
  \/ \E t \in Tasks, text \in Texts : TranscribeOk(t, text)
  \/ \E t \in Tasks : TranscribeFail(t)
  \/ \E t \in Tasks : BackoffDone(t)

SpecRetry == InitRetry /\ [][NextRetry]_vars

\* The local provider alone, with two clients calling transcribe().
WriteOutcomes == {"written", "throws, no file", "throws, file left"}

NextWhisper ==
  \/ Tick
  \/ \E c \in WClients, w \in WriteOutcomes : WTranscribe(c, w)
  \/ \E c \in WClients : WOpenInput(c)
  \/ \E c \in WClients, piece \in OutPieces : WStdout(c, piece)
  \/ \E c \in WClients, piece \in ErrPieces : WStderr(c, piece)
  \/ \E c \in WClients, code \in {0, 1} : WClose(c, code)
  \/ \E c \in WClients : WLaunchError(c)

InitWh ==
  InitRecorder("none") /\ InitTasks /\ InitCli("none", NoOptions) /\ InitWhisper
  /\ InitTts({NoTts}) /\ InitWav({NoWav})

SpecWhisper == InitWh /\ [][NextWhisper]_vars

\* The tts command line alone, from the start of its main().
InitTtsRun ==
  InitRecorder("none") /\ InitTasks /\ InitCli("none", NoOptions) /\ InitWhisper
  /\ InitTts(TtsStarts) /\ InitWav({NoWav})

NextTts ==
  \/ TtsMain
  \/ \E piece \in TtsTexts \ {<<>>} : TtsStdinData(piece)
  \/ TtsStdinEnd
  \/ TtsStdinError
  \/ TtsConvertOk
  \/ TtsConvertFail
  \/ \E c \in ChunkPool : TtsAudioChunk(c)
  \/ \E w \in {"written", "throws"} : TtsStreamEnd(w)

SpecTts == InitTtsRun /\ [][NextTts]_vars

\* Either command line: a run is a run of stt or a run of tts.
InitCliRun == Init \/ InitTtsRun

NextCli == Next \/ NextTts

SpecCli == InitCliRun /\ [][NextCli]_vars

\* The local provider with a single call of transcribe() at a time: what one
\* call makes of its subprocess's output and exit.
NextWhisperOne ==
  \/ Tick
  \/ \E w \in WriteOutcomes : WTranscribe(1, w)
  \/ WOpenInput(1)
  \/ \E piece \in OutPieces : WStdout(1, piece)
  \/ \E piece \in ErrPieces : WStderr(1, piece)
  \/ \E code \in {0, 1} : WClose(1, code)
  \/ WLaunchError(1)

SpecWhisperOne == InitWh /\ [][NextWhisperOne]_vars

\* pcmToWav alone: one call for every argument list.
InitWavRun ==
  InitRecorder("none") /\ InitTasks /\ InitCli("none", NoOptions) /\ InitWhisper
  /\ InitTts({NoTts}) /\ InitWav(WavCalls)

NextWav == \E onRange \in {"throws", "wraps"} : WavFrame(onRange)

SpecWav == InitWavRun /\ [][NextWav]_vars

C2_TimeoutKillsAndRejects ==
  \A t \in Tasks :
    call[t].overdue =>
      /\ "SIGKILL" \in signalled
      /\ call[t].state = "rejected"
      /\ call[t].err = StopTimeout

AllFailed(log) == \A i \in 1..Len(log) : log[i].out = "failed"

\* C5: with maxRetries = N >= 1 transcribe is invoked at most N times; when
\* all N attempts have failed the wrapper has thrown, and whenever it has
\* thrown, transcribe was invoked exactly N times, every attempt failed, and
\* the error reports N attempts and the message of the N-th error.
C5_RetryExhaustion ==
  \A t \in Tasks :
    (task[t].pc # "idle" /\ task[t].maxRetries >= 1) =>
      LET r == task[t] N == task[t].maxRetries IN
      /\ Len(r.log) <= N
      /\ (Len(r.log) = N /\ AllFailed(r.log)) => r.pc = "threw"
      /\ r.pc = "threw" =>
           /\ Len(r.log) = N
           /\ AllFailed(r.log)
           /\ r.thrown = [attempts |-> N, msg |-> r.log[N].val]
           /\ r.log[N].val = ErrorOf(N)

C5_Witness ==
  \E t \in Tasks :
    /\ task[t].pc = "threw"
    /\ task[t].maxRetries = 3
    /\ Len(task[t].log) = 3

\* C6: an attempt that succeeds is the last one made: the wrapper has
\* returned exactly its result, every earlier attempt failed, and no attempt
\* follows it.
C6_RetrySuccess ==
  \A t \in Tasks :
    LET r == task[t] IN
    /\ \A i \in 1..Len(r.log) :
         r.log[i].out = "ok" =>
           /\ i = Len(r.log)
           /\ r.pc \in {"returned", "done"}
           /\ r.result = r.log[i].val
    /\ r.pc = "returned" =>
         /\ r.log # <<>>
         /\ r.log[Len(r.log)].out = "ok"
         /\ Len(r.log) <= r.maxRetries
         /\ AllFailed(SubSeq(r.log, 1, Len(r.log) - 1))

C6_Witness ==
  \E t \in Tasks :
    /\ task[t].pc = "returned"
    /\ task[t].maxRetries = 3
    /\ Len(task[t].log) = 3
    /\ task[t].result = <<104, 105>>

\* C7: every elapsed wait is 500 ms; an attempt in flight was preceded by
\* one elapsed wait per earlier (failed) attempt; a run that ended in
\* success after f failures waited f times, and a run that ended in
\* exhaustion waited maxRetries - 1 times: never after the final attempt.
C7_BackoffPlacement ==
  \A t \in Tasks :
    LET r == task[t] IN
    /\ r.waitedMs = 500 * r.waits
    /\ r.pc \in {"attempt", "returned"} => r.waits = Len(r.log) - 1
    /\ r.pc = "backoff" =>
         /\ r.waits = Len(r.log) - 1
         /\ Len(r.log) < r.maxRetries
         /\ r.log[Len(r.log)].out = "failed"
    /\ (r.pc = "threw" /\ r.maxRetries >= 1) => r.waits = r.maxRetries - 1

C7_Witness ==
  \E t \in Tasks :
    /\ task[t].pc = "threw"
    /\ task[t].maxRetries = 3
    /\ task[t].waits = 2
    /\ task[t].waitedMs = 1000

(***************************************************************************)
(* Claims about the stt command line (checked under Spec).                 *)
(***************************************************************************)
\* C3: however many SIGINT/SIGTERM are delivered during the session, and
\* whenever, the stop-and-transcribe sequence of the signal path is triggered
\* exactly once: it never begins a second time, and in a session ended with
\* signals alone it has been carried through (recorder.stop, then
\* transcribeWithRetry and the output, or the failure of one of them).
C3_OneShotInterruption ==
  /\ sigTriggers <= 1
  /\ (exited /\ sigDelivered >= 1 /\ \A t \in LineTasks : task[t].pc = "idle") =>
       /\ sigTriggers = 1
       /\ call[0].state # "none"
       /\ task[0].pc \in {"done", "failed"}

\* C4: stop() is invoked at most once on the recorder handle.
C4_StopAtMostOnce ==
  Cardinality({t \in Tasks : call[t].state # "none"}) <= 1

\* C9: the process exits with code 0 only after a stop-and-transcribe
\* sequence has completed successfully, and with code 1 after a failure
\* (missing credential, stop() failure, retries exhausted).
C9_ExitCodes ==
  exited =>
    /\ exitCode \in {0, 1}
    /\ exitCode = 0 => \E t \in Tasks : task[t].pc = "done"
    /\ (mainPc = "exit" \/ \E t \in Tasks : task[t].pc = "failed") =>
         exitCode = 1

(***************************************************************************)
(* Claims about the local provider (checked under SpecWhisper).            *)
(***************************************************************************)
\* C10: once a transcribe() call has returned or failed, no temporary file
\* written by that call exists.
C10_TempFileDeleted ==
  \A c \in WClients :
    wcall[c].pc \in {"resolved", "rejected"} =>
      ~ \E f \in files : f.owner = c

(***************************************************************************)
(* Claims about failures of the stt command line (checked under Spec).     *)
(***************************************************************************)
\* C11: on every failure path (missing credential, recorder stop failure,
\* transcription failure) the process has exited non-zero and a diagnostic
\* message has been written to standard error, whether or not standard
\* input is a TTY.
C11_FailureDiagnostics ==
  (exited /\ (mainPc = "exit" \/ \E t \in Tasks : task[t].pc = "failed")) =>
    /\ exitCode # 0
    /\ \E i \in 1..Len(stderr) :
         Head(stderr[i]) \in {"Error:", "Transcription failed",
                              "Error: ELEVENLABS_API_KEY required"}

(***************************************************************************)
(* Claims about both command lines (checked under SpecCli).                *)
(***************************************************************************)
\* C12: a run of stt or tts that has ended with exit code 1 has written
\* nothing to standard output, and whatever is on standard output was
\* written by an operation that succeeded as a whole (exit code 0).
C12_NoStdoutOnFailure ==
  /\ (exited /\ exitCode = 1) => stdout = <<>>
  /\ stdout # <<>> =>
       /\ exited
       /\ exitCode = 0
       /\ tts.pc = "done" \/ \E t \in Tasks : task[t].pc = "done"

C12_Witness ==
  /\ exited
  /\ exitCode = 1
  /\ tts.pc = "failed"
  /\ tts.chunks # <<>>

(***************************************************************************)
(* More claims about the recorder (checked under SpecRecorder).            *)
(***************************************************************************)
\* C13: every stop() call has settled (resolved with a buffer or rejected
\* with an error) by the time its 2 s shutdown timer has fired, whatever
\* the subprocess did: exited on SIGTERM, ignored it, or had exited before
\* the call.
C13_BoundedStop ==
  \A t \in Tasks :
    call[t].timer = "fired" => call[t].state \in {"resolved", "rejected"}

(***************************************************************************)
(* Claims about the WAV framer (checked under SpecWav).                    *)
(***************************************************************************)
\* the unsigned little-endian number in the n bytes of b from offset off on
\* (for values below 2^31)
RECURSIVE ReadLE(_, _, _)
ReadLE(b, off, n) ==
  IF n = 0 THEN 0 ELSE b[off + 1] + 256 * ReadLE(b, off + 1, n - 1)

\* long division of little-endian bytes by k: quotient bytes and remainder
RECURSIVE DivLE(_, _)
DivLE(bs, k) ==
  IF bs = <<>> THEN [quot |-> <<>>, rem |-> 0]
  ELSE LET hi == DivLE(Tail(bs), k)
           v == hi.rem * 256 + Head(bs)
       IN [quot |-> <<v \div k>> \o hi.quot, rem |-> v % k]

\* a <= b on little-endian bytes of equal length
RECURSIVE LeqLE(_, _)
LeqLE(a, b) ==
  IF a = <<>> THEN TRUE
  ELSE IF a[Len(a)] # b[Len(b)] THEN a[Len(a)] < b[Len(b)]
  ELSE LeqLE(SubSeq(a, 1, Len(a) - 1), SubSeq(b, 1, Len(b) - 1))

\* the header can hold the derived fields: channels * 2 <= 65535 and
\* sampleRate * channels * 2 <= 2^32 - 1
Representable(sampleRate, channels) ==
  /\ 2 * channels <= 65535
  /\ LeqLE(sampleRate, DivLE(<<255, 255, 255, 255>>, 2 * channels).quot)

\* C14: a call of pcmToWav(p, sampleRate, channels) whose derived fields
\* the header can hold returns; and every result returned has length
\* 44 + len(p), 'RIFF' in bytes 0-3, 'WAVE' in bytes 8-11 and len(p),
\* little-endian, in the four bytes at offset 40; for the empty buffer it
\* is 44 bytes with data size 0.
C14_WavFraming ==
  /\ (wav.pc \notin {"off", "called"}
      /\ Representable(wav.sampleRate, wav.channels)) => wav.pc = "returned"
  /\ wav.pc = "returned" =>
       /\ Len(wav.bytes) = 44 + Len(wav.pcm)
       /\ SubSeq(wav.bytes, 1, 4) = <<82, 73, 70, 70>>
       /\ SubSeq(wav.bytes, 9, 12) = <<87, 65, 86, 69>>
       /\ ReadLE(wav.bytes, 40, 4) = Len(wav.pcm)
       /\ wav.pcm = <<>> =>
            /\ Len(wav.bytes) = 44
            /\ SubSeq(wav.bytes, 41, 44) = <<0, 0, 0, 0>>

C14_Witness ==
  /\ wav.pc = "returned"
  /\ Len(wav.pcm) = 3
  /\ wav.channels = 2
  /\ ReadLE(wav.bytes, 40, 4) = 3

\* the header fields of C15 as they are read back from a result
HeaderFields(b, pcm, sampleRate, channels) ==
  /\ ReadLE(b, 4, 4) = 36 + Len(pcm)
  /\ SubSeq(b, 13, 16) = <<102, 109, 116, 32>>
  /\ ReadLE(b, 16, 4) = 16
  /\ ReadLE(b, 20, 2) = 1
  /\ ReadLE(b, 22, 2) = channels
  /\ SubSeq(b, 25, 28) = sampleRate
  /\ DivLE(SubSeq(b, 29, 32), 2 * channels) = [quot |-> sampleRate, rem |-> 0]
  /\ ReadLE(b, 32, 2) = 2 * channels
  /\ ReadLE(b, 34, 2) = 16
  /\ SubSeq(b, 37, 40) = <<100, 97, 116, 97>>
  /\ SubSeq(b, 45, Len(b)) = pcm

\* C15 as stated: for every input, pcmToWav writes a header with
\* fileSize = 36 + len(pcm), fmt chunk size 16, format tag 1, the given
\* channels and sampleRate, blockAlign = channels * 2,
\* byteRate = sampleRate * blockAlign, 16 bits per sample, and the PCM input
\* verbatim from offset 44 on.
C15_HeaderFields_AsStated ==
  wav.pc \notin {"off", "called"} =>
    /\ wav.pc = "returned"
    /\ HeaderFields(wav.bytes, wav.pcm, wav.sampleRate, wav.channels)

\* C15, amended: for every input whose blockAlign = channels * 2 fits the
\* 16-bit field and whose byteRate = sampleRate * blockAlign fits the 32-bit
\* field, pcmToWav returns and the header carries the fields above.
C15_HeaderFields ==
  (wav.pc \notin {"off", "called"}
   /\ Representable(wav.sampleRate, wav.channels)) =>
    /\ wav.pc = "returned"
    /\ HeaderFields(wav.bytes, wav.pcm, wav.sampleRate, wav.channels)

C15_Witness ==
  /\ wav.pc = "returned"
  /\ wav.sampleRate = <<68, 172, 0, 0>>
  /\ wav.channels = 32767
  /\ wav.pcm = <<0, 255>>
  /\ SubSeq(wav.bytes, 45, 46) = <<0, 255>>

\* C16: pcmToWav returns a result, raising no error, for every byte
\* sequence, every positive sampleRate within uint32 and every positive
\* channels within uint16, also when the derived blockAlign or byteRate
\* exceeds the 16-bit or 32-bit field it is written into.
C16_WavTotal ==
  wav.pc \notin {"off", "called"} =>
    /\ ~wav.threw
    /\ wav.pc = "returned"
    /\ Len(wav.bytes) >= 44

(***************************************************************************)
(* More claims about the local provider (checked under SpecWhisperOne).    *)
(***************************************************************************)
\* The text C17 describes, read off the captured output by positions: the
\* lines are the stretches between newlines; a line is kept when it does
\* not begin with '[' and has a character that is not white space; a kept
\* line contributes what lies between its first and last such character.
LineCuts(out) == {0, Len(out) + 1} \cup {i \in 1..Len(out) : out[i] = 10}

Cut(out, k) ==
  CHOOSE b \in LineCuts(out) :
    Cardinality({x \in LineCuts(out) : x < b}) = k - 1

LineAt(out, k) == SubSeq(out, Cut(out, k) + 1, Cut(out, k + 1) - 1)

Inked(line) == {i \in 1..Len(line) : line[i] \notin {32, 9, 10, 13}}

KeptLine(line) == Inked(line) # {} /\ line[1] # 91

Stripped(line) ==
  SubSeq(line,
         CHOOSE i \in Inked(line) : \A j \in Inked(line) : i <= j,
         CHOOSE i \in Inked(line) : \A j \in Inked(line) : i >= j)

RECURSIVE TextUpTo(_, _)
TextUpTo(out, k) ==
  IF k = 0 THEN <<>>
  ELSE IF ~KeptLine(LineAt(out, k)) THEN TextUpTo(out, k - 1)
  ELSE IF TextUpTo(out, k - 1) = <<>> THEN Stripped(LineAt(out, k))
  ELSE TextUpTo(out, k - 1) \o <<32>> \o Stripped(LineAt(out, k))

ExpectedText(out) == TextUpTo(out, Cardinality(LineCuts(out)) - 1)

\* C17: when whisper-cpp has exited with code 0, the result text is the
\* lines of its captured stdout that do not begin with '[' and are not
\* blank, each trimmed, joined with single spaces; '[00:00:00] Hello\nworld\n'
\* gives 'world', and output with only bracketed lines gives the empty text.
C17_WhisperParsing ==
  /\ \A c \in WClients :
       wcall[c].pc = "resolved" =>
         /\ wcall[c].text = ExpectedText(wcall[c].stdout)
         /\ (wcall[c].stdout # <<>>
             /\ \A k \in 1..(Cardinality(LineCuts(wcall[c].stdout)) - 1) :
                  LineAt(wcall[c].stdout, k) # <<>> =>
                    LineAt(wcall[c].stdout, k)[1] = 91) =>
              wcall[c].text = <<>>
  /\ ParseWhisper(<<91, 48, 48, 58, 48, 48, 58, 48, 48, 93, 32, 72, 101, 108,
                    108, 111, 10, 119, 111, 114, 108, 100, 10>>)
       = <<119, 111, 114, 108, 100>>

C17_Witness ==
  \E c \in WClients :
    /\ wcall[c].pc = "resolved"
    /\ wcall[c].stdout = <<91, 97, 10, 32, 98, 10>>
    /\ wcall[c].text = <<98>>

\* C18: when whisper-cpp has exited with a non-zero code, transcribe has
\* failed, with no text, and the failure message carries the exit code and
\* the captured standard-error text; when whisper-cpp could not be launched
\* transcribe has failed with the distinct message 'Failed to run whisper'.
C18_WhisperFailure ==
  \A c \in WClients :
    /\ wcall[c].code \notin {-1, 0} =>
         /\ wcall[c].pc = "rejected"
         /\ wcall[c].text = <<>>
         /\ Head(wcall[c].err) = "Whisper failed with code"
         /\ wcall[c].err[2] = wcall[c].code
         /\ SubSeq(wcall[c].err, 3, Len(wcall[c].err)) = wcall[c].stderr
    /\ wcall[c].launchFailed =>
         /\ wcall[c].pc = "rejected"
         /\ wcall[c].text = <<>>
         /\ Head(wcall[c].err) = "Failed to run whisper"
         /\ Len(wcall[c].err) = 1

C18_Witness ==
  \E c \in WClients :
    /\ wcall[c].code = 1
    /\ wcall[c].stderr = <<"model not found">>
    /\ wcall[c].pc = "rejected"
    /\ wcall[c].err[3] = "model not found"

(***************************************************************************)
(* More claims about the stt command line (checked under Spec).            *)
(***************************************************************************)
\* C19: with the elevenlabs provider selected and no API key configured,
\* the start-up ends in a configuration error on standard error and exit
\* code 1, and no recorder subprocess was spawned, no handler ran and no
\* transcription call was made.
C19_CredentialFailFast ==
  (opts.provider = "elevenlabs" /\ ~opts.apiKey /\ mainPc # "start") =>
    /\ exited
    /\ exitCode = 1
    /\ mainPc = "exit"
    /\ \E i \in 1..Len(stderr) :
         Head(stderr[i]) = "Error: ELEVENLABS_API_KEY required"
    /\ proc = "none"
    /\ emitted = <<>>
    /\ ~activeRecorder
    /\ stdout = <<>>
    /\ \A t \in Tasks :
         task[t].pc = "idle" /\ task[t].log = <<>> /\ call[t].state = "none"

C19_Witness ==
  /\ opts.provider = "elevenlabs"
  /\ ~opts.apiKey
  /\ exited
  /\ exitCode = 1
  /\ proc = "none"

(***************************************************************************)
(* Claims about the tts command line (checked under SpecTts).              *)
(***************************************************************************)
\* C20: a run of tts calls the remote endpoint at most once; when that call
\* (or the stream it returned) has failed the process has exited with code
\* 1 and no second call was made; with no API key configured, or with an
\* empty input text, the run has failed without any remote call.
C20_SynthesisNotRetried ==
  /\ tts.calls <= 1
  /\ tts.pc = "failed" => (exited /\ exitCode = 1)
  /\ (tts.pc \notin {"off", "start", "reading"}
      /\ (~tts.apiKey \/ (tts.textArg = <<>> /\ Inked(tts.data) = {}))) =>
       /\ tts.calls = 0
       /\ tts.pc = "failed"
       /\ stdout = <<>>

C20_Witness ==
  /\ tts.pc = "failed"
  /\ tts.calls = 1
  /\ tts.apiKey
  /\ exited
  /\ exitCode = 1

(***************************************************************************)
(* The stop/data race of the recorder (checked under SpecRecorder).        *)
(***************************************************************************)
\* C21: the buffer a stop() call resolves with holds every chunk the
\* subprocess delivered before its close was observed, those that arrived
\* after the call sent SIGTERM included, in order; and once the buffer has
\* been returned the accumulator holds nothing more than was returned.
C21_StopDataRace ==
  \A t \in Tasks :
    call[t].state = "resolved" =>
      /\ proc = "closed"
      /\ call[t].at <= Len(emitted)
      /\ call[t].value = BufferConcat(emitted)
      /\ SubSeq(call[t].value, 1, SumLen(SubSeq(emitted, 1, call[t].at)))
           = BufferConcat(SubSeq(emitted, 1, call[t].at))
      /\ chunks = emitted
      /\ BufferConcat(chunks) = call[t].value

C21_Witness ==
  \E t \in Tasks :
    /\ call[t].state = "resolved"
    /\ call[t].sent
    /\ call[t].at = 1
    /\ Len(emitted) = 2


(***************************************************************************)
(* Claims about the order of the stt pipeline (checked under Spec).        *)
(***************************************************************************)
\* C22: a handler of the stt command line invokes transcribe only once its
\* recorder.stop() call has resolved, and every attempt is given exactly the
\* buffer that call resolved with; when its stop() call has failed (no
\* audio, timeout, subprocess error) it has made no attempt and the process
\* has exited with code 1.
C22_PipelineOrdering ==
  \A t \in Tasks :
    /\ task[t].log # <<>> =>
         /\ call[t].state = "resolved"
         /\ \A i \in 1..Len(task[t].log) : task[t].log[i].audio = call[t].value
    /\ task[t].pc \in {"attempt", "backoff"} =>
         /\ call[t].state = "resolved"
         /\ task[t].audio = call[t].value
    /\ call[t].state = "rejected" =>
         /\ call[t].err \in {NoAudioCaptured, StopTimeout, ProcError}
         /\ task[t].log = <<>>
         /\ exited
         /\ exitCode = 1

C22_Witness ==
  \E t \in Tasks :
    /\ call[t].state = "resolved"
    /\ call[t].value # <<>>
    /\ Len(task[t].log) = 2
    /\ task[t].log[2].audio = call[t].value

\* C23: in a run of the stt command line, whatever the order of Enter lines
\* and SIGINT/SIGTERM signals, the transcription payload is written to
\* standard output at most once, and the process has exited when it is there.
C23_SingleOutput ==
  /\ Len(stdout) <= 1
  /\ stdout # <<>> => exited

\* both handlers were transcribing when one of them wrote the payload
C23_Witness ==
  /\ Len(stdout) = 1
  /\ \A t \in Tasks : task[t].log # <<>>


(***************************************************************************)
(* Two concurrent calls of the local provider (checked under SpecWhisper). *)
(***************************************************************************)
\* C24: while the recognition subprocesses of two transcribe() calls are in
\* flight, the two calls use different temporary files, and the file a
\* subprocess is given exists and holds the audio of its own call: no other
\* call's cleanup has deleted it and no other call's write has replaced it.
C24_TempFileIsolation ==
  \A c \in WClients :
    wcall[c].pc \in {"spawned", "running"} =>
      /\ \A d \in WClients \ {c} :
           wcall[d].pc \in {"spawned", "running"} => wcall[d].file # wcall[c].file
      /\ \E f \in FileNamed(wcall[c].file) : f.owner = c
      /\ wcall[c].pc = "running" => wcall[c].input = "own"


(***************************************************************************)
(* The two ways of ending a recording (checked under Spec).                *)
(***************************************************************************)
\* C25: for the same recorder outcome, transcription result and options, the
\* handler of Enter and the handler of SIGINT/SIGTERM write the same bytes to
\* standard output and exit with the same code: what a run that ended
\* through either handler has written is what each of the two handlers
\* writes for that result, with exit code 0; a run that failed in either
\* handler has written nothing, with exit code 1.
C25_StopPathEquivalence ==
  \A t \in Tasks :
    /\ task[t].pc = "done" =>
         /\ stdout = LineOutput(task[t].result)
         /\ stdout = SignalOutput(task[t].result)
         /\ exitCode = 0
    /\ task[t].pc = "failed" =>
         /\ stdout = <<>>
         /\ exitCode = 1


(***************************************************************************)
(* The retry wrapper with no attempt allowed (checked under SpecRetry).    *)
(***************************************************************************)
\* C26: transcribeWithRetry(pcm, maxRetries) with maxRetries <= 0 has, as
\* soon as it is called, thrown the exhaustion error (reporting maxRetries
\* attempts) without invoking transcribe and without waiting; and a call made
\* without maxRetries (the handlers of the command line) makes at most 2
\* attempts.
C26_NoAttemptsAllowed ==
  \A t \in Tasks :
    /\ (task[t].pc # "idle" /\ task[t].maxRetries <= 0) =>
         /\ task[t].pc = "threw"
         /\ task[t].log = <<>>
         /\ task[t].waits = 0
         /\ task[t].waitedMs = 0
         /\ task[t].thrown = [attempts |-> task[t].maxRetries,
                              msg |-> <<"undefined">>]
    /\ task[t].defaulted =>
         /\ task[t].maxRetries = 2
         /\ Len(task[t].log) <= 2

C26_Witness ==
  /\ \E t \in Tasks : task[t].pc = "threw" /\ task[t].maxRetries = 0
  /\ \E t \in Tasks : task[t].defaulted /\ Len(task[t].log) = 2

=============================================================================
